---------------------------- MODULE Spec2Model ----------------------------
(***************************************************************************)
(* Model of embedding-worker/python/embedding_functions.py: the module     *)
(* level model cache, the two gateway functions generate_embedding and     *)
(* rerank_documents, and the two fallback functions                        *)
(* _create_fallback_embedding and _create_fallback_reranking.              *)
(*                                                                         *)
(* Texts are sequences of one-character strings.  A float score is kept as *)
(* the exact fraction <<num, den>> (lowest terms) of the value computed;   *)
(* for word-set unions of fewer than 10 words the IEEE doubles             *)
(* intersection / union and intersection / union + 0.1 compare (<, =)      *)
(* exactly as these fractions do.                                          *)
(***************************************************************************)
EXTENDS Integers, Sequences, FiniteSets

\* ------------------------------------------------------------------ bounds

\* Longest text (in characters) drawn as query / document by SpecScore.
MaxLen == 3

\* Longest document list drawn by SpecRerank.
MaxDocs == 3

\* Largest magnitude of hash(text) drawn by SpecEmbed.
MaxHash == 2000

\* Most load attempts per model in a run of Spec.
MaxLoads == 2

\* ------------------------------------------------------------------- texts

\* The characters texts are made of: two lower-case letters, one upper-case
\* letter and the blank.
Alphabet == {"a", "b", "A", " "}

\* str.lower() on one character.
LowerChar(c) == IF c = "A" THEN "a" ELSE c

\* str.lower(): query.lower(), doc.lower().
Lower(t) == [i \in 1..Len(t) |-> LowerChar(t[i])]

\* str.isspace() on one character; str.split() with no argument splits on
\* runs of whitespace.
IsSpace(c) == c = " "

\* str.split(): the maximal runs of non-whitespace characters, in order.
\* cur is the word being read, t the text still to read.
RECURSIVE SplitFrom(_, _)
SplitFrom(t, cur) ==
    IF t = << >>
    THEN IF cur = << >> THEN << >> ELSE << cur >>
    ELSE IF IsSpace(Head(t))
         THEN IF cur = << >>
              THEN SplitFrom(Tail(t), << >>)
              ELSE << cur >> \o SplitFrom(Tail(t), << >>)
         ELSE SplitFrom(Tail(t), Append(cur, Head(t)))

Split(t) == SplitFrom(t, << >>)

\* set(text.lower().split())
WordSet(t) == LET ws == Split(Lower(t)) IN { ws[i] : i \in 1..Len(ws) }

\* The `in` operator on strings: needle is a contiguous substring of hay.
Contains(needle, hay) ==
    \E i \in 0..(Len(hay) - Len(needle)) :
        SubSeq(hay, i + 1, i + Len(needle)) = needle

\* All texts of at most n characters.
RECURSIVE TextsOfLen(_)
TextsOfLen(n) ==
    IF n = 0 THEN { << >> }
    ELSE { Append(t, c) : t \in TextsOfLen(n - 1), c \in Alphabet }

TextsUpTo(n) == UNION { TextsOfLen(k) : k \in 0..n }

\* ------------------------------------------------------------------ scores

RECURSIVE Gcd(_, _)
Gcd(a, b) == IF b = 0 THEN a ELSE Gcd(b, a % b)

Abs(n) == IF n < 0 THEN 0 - n ELSE n

\* A score is the fraction num / den, den > 0, in lowest terms: two scores
\* are the same float exactly when they are the same pair.
Score(n, d) == LET g == Gcd(Abs(n), d) IN << n \div g, d \div g >>

ScoreLess(a, b) == a[1] * b[2] < b[1] * a[2]

ScoreEq(a, b) == a[1] * b[2] = b[1] * a[2]

ScoreLeq(a, b) == a[1] * b[2] <= b[1] * a[2]

\* score += 0.1
AddBonus(s) == Score(10 * s[1] + s[2], 10 * s[2])

\* Jaccard with two empty word sets taken as identical (similarity 1).
JaccardEmptyIsOne(query_words, doc_words) ==
    LET intersection == Cardinality(query_words \cap doc_words)
        union        == Cardinality(query_words \cup doc_words)
    IN  IF union > 0 THEN Score(intersection, union) ELSE Score(1, 1)

\* Lines 212-218: intersection / union, 0.0 when the union is empty.
Jaccard(query_words, doc_words) ==
    LET intersection == Cardinality(query_words \cap doc_words)
        union        == Cardinality(query_words \cup doc_words)
    IN  IF union > 0 THEN Score(intersection, union) ELSE Score(0, 1)

\* The substring test without lower-casing the document.
HasBonusCaseSensitive(query, doc) == Contains(Lower(query), doc)

\* Line 221: the condition of the substring bonus.
HasBonus(query, doc) == Contains(Lower(query), Lower(doc))

\* Lines 209-222: the score of one document.
FallbackScore(query, doc) ==
    LET score == Jaccard(WordSet(query), WordSet(doc))
    IN  IF HasBonus(query, doc) THEN AddBonus(score) ELSE score

\* The loop with the index counted from 1 (enumerate(documents, 1)).
ScoreAllFromOne(query, documents) ==
    [i \in 1..Len(documents) |-> << i, FallbackScore(query, documents[i]) >>]

\* Lines 206-224: the loop; entries are <<original index, score>>, the index
\* counted from 0 as enumerate() does.
ScoreAll(query, documents) ==
    [i \in 1..Len(documents) |-> << i - 1, FallbackScore(query, documents[i]) >>]

\* -------------------------------------------------------------------- sort

Reverse(s) == [i \in 1..Len(s) |-> s[Len(s) + 1 - i]]

\* Insert e into the ascending sequence s after every entry whose key is
\* not greater than e's (the stable insertion of list.sort).
RECURSIVE InsertAsc(_, _)
InsertAsc(s, e) ==
    IF s = << >> THEN << e >>
    ELSE IF ScoreLess(e[2], Head(s)[2])
         THEN << e >> \o s
         ELSE << Head(s) >> \o InsertAsc(Tail(s), e)

\* list.sort(key=lambda x: x[1]): stable, ascending by score.
RECURSIVE SortAsc(_)
SortAsc(s) ==
    IF s = << >> THEN << >>
    ELSE InsertAsc(SortAsc(SubSeq(s, 1, Len(s) - 1)), s[Len(s)])

\* An ascending sort reversed afterwards: entries of equal key end up in
\* reverse order.
SortAscThenReverse(s) == Reverse(SortAsc(s))

\* list.sort(key=lambda x: x[1], reverse=True): the list is reversed, sorted
\* ascending with the stable sort and reversed again, which keeps entries of
\* equal key in their original order.
SortDesc(s) == Reverse(SortAsc(Reverse(s)))

\* top_k: None is << >>, an integer k is << k >>.
None == << >>

Min(a, b) == IF a < b THEN a ELSE b

Max(a, b) == IF a > b THEN a ELSE b

\* scores[:k] for an integer k (a negative k counts from the end).
Slice(s, k) ==
    IF k >= 0 THEN SubSeq(s, 1, Min(k, Len(s)))
    ELSE SubSeq(s, 1, Max(0, Len(s) + k))

\* The truncation guarded by `if top_k:` instead of `is not None`.
ApplyTopKTruthy(s, k) == IF k # None /\ k[1] # 0 THEN Slice(s, k[1]) ELSE s

\* Lines 229-231.
ApplyTopK(s, k) == IF k # None THEN Slice(s, k[1]) ELSE s

\* _create_fallback_reranking(query, documents, top_k), lines 203-234.
FallbackReranking(q, docs, k) == ApplyTopK(SortDesc(ScoreAll(q, docs)), k)


\* --------------------------------------------------------------- embedding

\* range(384), line 189.
EmbeddingDim == 384

\* seed = hash_value + i * 37, line 191.
SeedStride == 37

\* seed % 2000 - 1000, line 192.
SeedModulus == 2000

SeedOffset == 1000

\* A remainder that takes the sign of the dividend, as C's % does.
TruncMod(a, m) == IF a >= 0 THEN a % m ELSE 0 - ((0 - a) % m)

\* Python's % on integers with a positive modulus: the remainder is never
\* negative.
PyMod(a, m) == a % m

\* The seed taken from the hash alone, the position left out.
RawValueNoIndex(hash, i) == PyMod(hash, SeedModulus) - SeedOffset

\* Lines 191-192 for index i (from 0); the value is kept in thousandths, so
\* that value = RawValue / 1000.0.
RawValue(hash, i) == PyMod(hash + i * SeedStride, SeedModulus) - SeedOffset

\* Lines 188-193: the 384 raw components.
RawEmbedding(hash) == [i \in 1..EmbeddingDim |-> RawValue(hash, i - 1)]

\* sum(x * x for x in embedding[lo..hi]), line 196 (halved to keep the
\* evaluation shallow).
RECURSIVE SumSquaresRange(_, _, _)
SumSquaresRange(s, lo, hi) ==
    IF lo > hi THEN 0
    ELSE IF lo = hi THEN s[lo] * s[lo]
    ELSE LET mid == (lo + hi) \div 2
         IN  SumSquaresRange(s, lo, mid) + SumSquaresRange(s, mid + 1, hi)

SumSquares(s) == SumSquaresRange(s, 1, Len(s))

\* _create_fallback_embedding, lines 182-201, on a text whose hash() is
\* hash.  norm = sumsq ** 0.5 / 1000 is positive exactly when sumsq is; a
\* normalized vector is raw[i] / sqrt(sumsq), kept as raw and sumsq.
FallbackEmbedding(hash) ==
    LET raw   == RawEmbedding(hash)
        sumsq == SumSquares(raw)
    IN  [source |-> "fallback", raw |-> raw, sumsq |-> sumsq,
         normalized |-> sumsq > 0]

\* No embedding returned (yet).
NoEmbedding ==
    [source |-> "none", raw |-> << >>, sumsq |-> 0, normalized |-> FALSE]

\* ------------------------------------------------------------------- state

VARIABLES
    SENTENCE_TRANSFORMERS_AVAILABLE, \* line 22 / 25, fixed at import
    TRANSFORMERS_AVAILABLE,          \* line 31 / 34, fixed at import
    _embedding_model,                \* line 38
    _reranking_model,                \* line 39
    _tokenizer,                      \* line 40
    embedding_loads,                 \* SentenceTransformer(...) calls so far
    reranking_loads,                 \* from_pretrained load attempts so far
    pc,                              \* "idle", "called" or "returned"
    fn,                              \* the function called
    text, hash_value,                \* generate_embedding's text, its hash()
    query, documents, top_k,         \* the reranking arguments
    load_outcome,                    \* what the load of this call did
    encode_ok,                       \* whether model.encode returned
    outcomes,                        \* per document: << >> (raised) or a score
    embedding,                       \* the embedding returned
    scores,                          \* the ranking returned
    raised,                          \* the call ended by raising
    frames                           \* the call frames of concurrent threads

flagVars == << SENTENCE_TRANSFORMERS_AVAILABLE, TRANSFORMERS_AVAILABLE >>

cacheVars == << _embedding_model, _reranking_model, _tokenizer >>

loadVars == << embedding_loads, reranking_loads >>

argVars == << fn, text, hash_value, query, documents, top_k >>

envVars == << load_outcome, encode_ok, outcomes >>

retVars == << embedding, scores, raised >>

vars == << flagVars, cacheVars, loadVars, pc, argVars, envVars, retVars,
           frames >>

\* The values of the model cache: None, the "fallback" string, or a loaded
\* object, told apart by the number of the load that made it.
NoneVal == [kind |-> "None", id |-> 0]

FallbackSentinel == [kind |-> "fallback", id |-> 0]

Loaded(kind, n) == [kind |-> kind, id |-> n]

\* The module right after import with both libraries missing, no call made:
\* the part of the state a direct call of a fallback function never touches.
ModuleAtRest ==
    /\ SENTENCE_TRANSFORMERS_AVAILABLE = FALSE
    /\ TRANSFORMERS_AVAILABLE = FALSE
    /\ _embedding_model = NoneVal
    /\ _reranking_model = NoneVal
    /\ _tokenizer = NoneVal
    /\ embedding_loads = 0
    /\ reranking_loads = 0
    /\ load_outcome = "none"
    /\ encode_ok = TRUE
    /\ outcomes = << >>
    /\ raised = FALSE
    /\ frames = << >>

\* --------------------------- direct calls of _create_fallback_reranking

\* The texts SpecRerank draws queries and documents from.
SampleTexts ==
    { << >>, << " " >>, << "a" >>, << "b" >>, << "A", " ", "b" >> }

\* All sequences over S of length at most n.
RECURSIVE SeqsOfLen(_, _)
SeqsOfLen(S, n) ==
    IF n = 0 THEN { << >> }
    ELSE { Append(s, x) : s \in SeqsOfLen(S, n - 1), x \in S }

SeqsUpTo(S, n) == UNION { SeqsOfLen(S, k) : k \in 0..n }

\* top_k: omitted, or an integer from -1 to one more than the longest list.
TopKs == { None } \cup { << k >> : k \in (0 - 1)..(MaxDocs + 1) }

\* A call of _create_fallback_reranking(query, documents, top_k) is pending.
RerankCalled(Q, D, K) ==
    /\ ModuleAtRest
    /\ pc = "called"
    /\ fn = "_create_fallback_reranking"
    /\ text = << >> /\ hash_value = 0
    /\ query \in Q
    /\ documents \in D
    /\ top_k \in K
    /\ embedding = NoEmbedding
    /\ scores = << >>

InitRerank == RerankCalled(SampleTexts, SeqsUpTo(SampleTexts, MaxDocs), TopKs)

\* One query and one document, no top_k.
InitScore == RerankCalled(TextsUpTo(MaxLen), SeqsOfLen(TextsUpTo(MaxLen), 1), { None })

\* The call runs and returns (lines 203-234).
CreateFallbackReranking ==
    /\ pc = "called"
    /\ fn = "_create_fallback_reranking"
    /\ scores' = FallbackReranking(query, documents, top_k)
    /\ pc' = "returned"
    /\ UNCHANGED << flagVars, cacheVars, loadVars, argVars, envVars,
                    embedding, raised, frames >>

SpecRerank == InitRerank /\ [][CreateFallbackReranking]_vars

SpecScore == InitScore /\ [][CreateFallbackReranking]_vars

\* --------------------------- direct calls of _create_fallback_embedding

\* The texts SpecEmbed draws: the empty string and a non-empty one.
EmbedTexts == { << >>, << "a" >> }

\* hash(text), line 185: an integer fixed by the interpreter, of either sign.
HashValues == (0 - MaxHash)..MaxHash

\* A call of _create_fallback_embedding(text) is pending.
InitEmbed ==
    /\ ModuleAtRest
    /\ pc = "called"
    /\ fn = "_create_fallback_embedding"
    /\ text \in EmbedTexts
    /\ hash_value \in HashValues
    /\ query = << >> /\ documents = << >> /\ top_k = None
    /\ embedding = NoEmbedding
    /\ scores = << >>

\* The call runs and returns (lines 182-201).
CreateFallbackEmbedding ==
    /\ pc = "called"
    /\ fn = "_create_fallback_embedding"
    /\ embedding' = FallbackEmbedding(hash_value)
    /\ pc' = "returned"
    /\ UNCHANGED << flagVars, cacheVars, loadVars, argVars, envVars,
                    scores, raised, frames >>

SpecEmbed == InitEmbed /\ [][CreateFallbackEmbedding]_vars

\* ------------------------------------------------------- the model cache

\* The cache check of a getter that reloads on every call.
AlwaysEmpty == TRUE

\* Line 46: `if _embedding_model is None`.
EmbeddingCacheEmpty == _embedding_model = NoneVal

\* Line 65: `if _reranking_model is None`.
RerankingCacheEmpty == _reranking_model = NoneVal

\* The call reaches SentenceTransformer('all-MiniLM-L6-v2'), line 50.
EmbeddingLoadAttempted == EmbeddingCacheEmpty /\ SENTENCE_TRANSFORMERS_AVAILABLE

\* The call reaches the from_pretrained calls, lines 70-71.
RerankingLoadAttempted == RerankingCacheEmpty /\ TRANSFORMERS_AVAILABLE

\* What the load of a call can do: "ok", or raise.  A call that loads
\* nothing has outcome "none".
EmbeddingLoadOutcomes == { "ok", "raises" }

RerankingLoadOutcomes == { "ok", "tokenizer_raises", "model_raises" }

\* _embedding_model after _get_embedding_model(), lines 46-57, when the load
\* (if one is made) ends as `load`.
EmbeddingModelAfterGet(load) ==
    IF EmbeddingCacheEmpty
    THEN IF SENTENCE_TRANSFORMERS_AVAILABLE
         THEN IF load = "ok"
              THEN Loaded("SentenceTransformer", embedding_loads + 1)
              ELSE NoneVal
         ELSE FallbackSentinel
    ELSE _embedding_model

\* << _reranking_model, _tokenizer >> after _get_reranking_model(), lines
\* 65-80.
RerankingCacheAfterGet(load) ==
    IF RerankingCacheEmpty
    THEN IF TRANSFORMERS_AVAILABLE
         THEN IF load = "ok"
              THEN << Loaded("AutoModel", reranking_loads + 1),
                      Loaded("AutoTokenizer", reranking_loads + 1) >>
              ELSE << NoneVal, NoneVal >>
         ELSE << FallbackSentinel, FallbackSentinel >>
    ELSE << _reranking_model, _tokenizer >>

\* _get_embedding_model(), lines 42-59, as a step on the module state.
DoGetEmbeddingModel(load) ==
    /\ EmbeddingLoadAttempted => embedding_loads < MaxLoads
    /\ ~EmbeddingLoadAttempted => load = "ok"
    /\ _embedding_model' = EmbeddingModelAfterGet(load)
    /\ embedding_loads' =
          IF EmbeddingLoadAttempted THEN embedding_loads + 1 ELSE embedding_loads
    /\ load_outcome' = IF EmbeddingLoadAttempted THEN load ELSE "none"

\* _get_reranking_model(), lines 61-82, as a step on the module state.
DoGetRerankingModel(load) ==
    /\ RerankingLoadAttempted => reranking_loads < MaxLoads
    /\ ~RerankingLoadAttempted => load = "ok"
    /\ _reranking_model' = RerankingCacheAfterGet(load)[1]
    /\ _tokenizer' = RerankingCacheAfterGet(load)[2]
    /\ reranking_loads' =
          IF RerankingLoadAttempted THEN reranking_loads + 1 ELSE reranking_loads
    /\ load_outcome' = IF RerankingLoadAttempted THEN load ELSE "none"

\* ------------------------------------------------------ generate_embedding

\* The result of a call: it raised, or it returned value.
Raised(none) == [raised |-> TRUE, value |-> none]

Returned(v) == [raised |-> FALSE, value |-> v]

\* hasattr(model, 'encode'), line 104: true of a SentenceTransformer, false
\* of the "fallback" string.
HasEncode(model) == model.kind = "SentenceTransformer"

\* model.encode([text], convert_to_numpy=True)[0].tolist(), lines 106-107:
\* a vector made by the model, opaque here.
ModelEmbedding ==
    [source |-> "model", raw |-> << >>, sumsq |-> 0, normalized |-> FALSE]

\* Lines 98-115, the body of the try; enc is whether model.encode returns.
TryGenerateEmbedding(model, hash, enc) ==
    IF model = NoneVal
    THEN Returned(FallbackEmbedding(hash))
    ELSE IF SENTENCE_TRANSFORMERS_AVAILABLE /\ HasEncode(model)
         THEN IF enc THEN Returned(ModelEmbedding) ELSE Raised(NoEmbedding)
         ELSE Returned(FallbackEmbedding(hash))

\* An except clause that logs and raises again.
ExceptReraises(hash) == Raised(NoEmbedding)

\* Lines 117-120, the except clause.
ExceptGenerateEmbedding(hash) == Returned(FallbackEmbedding(hash))

\* generate_embedding's result, lines 97-120.
GenerateEmbeddingResult(model, hash, enc) ==
    LET r == TryGenerateEmbedding(model, hash, enc)
    IN  IF r.raised THEN ExceptGenerateEmbedding(hash) ELSE r

\* -------------------------------------------------------- rerank_documents

\* The scoring of one document raised (lines 158-160).
Raises == << >>

\* Scores the cross-encoder can give: torch.mean(...).item() is any float.
ModelScores == { Score(0 - 1, 2), Score(0, 1), Score(1, 2) }

DocOutcomes == { Raises } \cup ModelScores

\* Lines 145-160: the loop of the real path; outs[i] is what scoring
\* documents[i] did.
ModelScoreAll(docs, outs) ==
    [i \in 1..Len(docs) |->
        << i - 1, IF outs[i] = Raises THEN Score(0, 1) ELSE outs[i] >>]

\* Line 143: the real path is taken.
UsesModel(model, tok) ==
    /\ model # NoneVal
    /\ tok # NoneVal
    /\ TRANSFORMERS_AVAILABLE
    /\ model # FallbackSentinel

\* rerank_documents' result, lines 136-180.  Nothing in the try raises
\* outside the inner try of lines 148-160, so the except clause of lines
\* 177-180 is never entered on well-typed arguments.
RerankDocumentsResult(model, tok, q, docs, k, outs) ==
    IF model = NoneVal \/ tok = NoneVal
    THEN Returned(FallbackReranking(q, docs, k))
    ELSE IF TRANSFORMERS_AVAILABLE /\ model # FallbackSentinel
         THEN Returned(ApplyTopK(SortDesc(ModelScoreAll(docs, outs)), k))
         ELSE Returned(FallbackReranking(q, docs, k))

\* ---------------------------------------------------- the calls of Spec

\* The inputs Spec draws.
GatewayHashes == { 0 - 1963, 0, 1000 }

GatewayQueries == { << >>, << "a" >> }

GatewayDocs == { << "a" >>, << "b" >> }

GatewayDocLists == SeqsUpTo(GatewayDocs, MaxDocs - 1)

GatewayTopKs == { None, << 1 >> }

\* No call is in progress.
NoCall ==
    /\ fn = "none"
    /\ text = << >> /\ hash_value = 0
    /\ query = << >> /\ documents = << >> /\ top_k = None
    /\ load_outcome = "none" /\ encode_ok = TRUE /\ outcomes = << >>
    /\ embedding = NoEmbedding /\ scores = << >> /\ raised = FALSE

\* The module right after import (lines 20-40): each library is there or not.
Init ==
    /\ SENTENCE_TRANSFORMERS_AVAILABLE \in BOOLEAN
    /\ TRANSFORMERS_AVAILABLE \in BOOLEAN
    /\ _embedding_model = NoneVal
    /\ _reranking_model = NoneVal
    /\ _tokenizer = NoneVal
    /\ embedding_loads = 0
    /\ reranking_loads = 0
    /\ pc = "idle"
    /\ NoCall
    /\ frames = << >>

\* A call of _get_embedding_model().
GetEmbeddingModel(load) ==
    /\ pc = "idle"
    /\ DoGetEmbeddingModel(load)
    /\ pc' = "returned"
    /\ fn' = "_get_embedding_model"
    /\ UNCHANGED << flagVars, _reranking_model, _tokenizer, reranking_loads,
                    text, hash_value, query, documents, top_k, encode_ok,
                    outcomes, retVars, frames >>

\* A call of _get_reranking_model().
GetRerankingModel(load) ==
    /\ pc = "idle"
    /\ DoGetRerankingModel(load)
    /\ pc' = "returned"
    /\ fn' = "_get_reranking_model"
    /\ UNCHANGED << flagVars, _embedding_model, embedding_loads,
                    text, hash_value, query, documents, top_k, encode_ok,
                    outcomes, retVars, frames >>

\* A call of generate_embedding(t), lines 84-120; h is hash(t), load what
\* the model load does and enc whether model.encode returns.
GenerateEmbedding(t, h, load, enc) ==
    /\ pc = "idle"
    /\ DoGetEmbeddingModel(load)
    /\ LET model   == _embedding_model'
           encodes == /\ model # NoneVal
                      /\ SENTENCE_TRANSFORMERS_AVAILABLE
                      /\ HasEncode(model)
           r       == GenerateEmbeddingResult(model, h, enc)
       IN  /\ ~encodes => enc
           /\ embedding' = r.value
           /\ raised' = r.raised
    /\ pc' = "returned"
    /\ fn' = "generate_embedding"
    /\ text' = t
    /\ hash_value' = h
    /\ encode_ok' = enc
    /\ UNCHANGED << flagVars, _reranking_model, _tokenizer, reranking_loads,
                    query, documents, top_k, outcomes, scores, frames >>

\* What scoring the documents can do in a call whose load ends as `load`:
\* one outcome per document on the real path, none on the fallback paths.
ScoringOutcomes(docs, load) ==
    IF UsesModel(RerankingCacheAfterGet(load)[1], RerankingCacheAfterGet(load)[2])
    THEN SeqsOfLen(DocOutcomes, Len(docs))
    ELSE { << >> }

\* A call of rerank_documents(q, docs, k), lines 122-180; outs[i] is what
\* scoring docs[i] does on the real path.
RerankDocuments(q, docs, k, load) ==
    /\ pc = "idle"
    /\ DoGetRerankingModel(load)
    /\ \E outs \in ScoringOutcomes(docs, load) :
          LET r == RerankDocumentsResult(_reranking_model', _tokenizer',
                                         q, docs, k, outs)
          IN  /\ scores' = r.value
              /\ raised' = r.raised
              /\ outcomes' = outs
    /\ pc' = "returned"
    /\ fn' = "rerank_documents"
    /\ query' = q
    /\ documents' = docs
    /\ top_k' = k
    /\ UNCHANGED << flagVars, _embedding_model, embedding_loads,
                    text, hash_value, encode_ok, embedding, frames >>

\* The caller takes the result; the module state stays.
Return ==
    /\ pc = "returned"
    /\ pc' = "idle"
    /\ fn' = "none"
    /\ text' = << >> /\ hash_value' = 0
    /\ query' = << >> /\ documents' = << >> /\ top_k' = None
    /\ load_outcome' = "none" /\ encode_ok' = TRUE /\ outcomes' = << >>
    /\ embedding' = NoEmbedding /\ scores' = << >> /\ raised' = FALSE
    /\ UNCHANGED << flagVars, cacheVars, loadVars, frames >>

Next ==
    \/ \E load \in EmbeddingLoadOutcomes : GetEmbeddingModel(load)
    \/ \E load \in RerankingLoadOutcomes : GetRerankingModel(load)
    \/ \E t \in EmbedTexts, h \in GatewayHashes,
          load \in EmbeddingLoadOutcomes, enc \in BOOLEAN :
            GenerateEmbedding(t, h, load, enc)
    \/ \E q \in GatewayQueries, docs \in GatewayDocLists, k \in GatewayTopKs,
          load \in RerankingLoadOutcomes :
            RerankDocuments(q, docs, k, load)
    \/ Return

Spec == Init /\ [][Next]_vars

\* ------------------------------------------------------ concurrent calls

\* The threads of SpecConc; each makes one call.
Threads == { "t1", "t2" }

\* The inputs SpecConc draws.
ConcQueries == { << "a" >> }

ConcDocLists == { << << "a" >> >>, << << "b" >>, << "a" >> >> }

ConcTopKs == { None, << 1 >> }

ConcHashes == { 0 - 1963 }

\* The frame of a thread: the function it runs, the line it is at, its
\* arguments and its local variables.  overlapped records that another
\* thread took a step while this call was running.
IdleFrame ==
    [fn |-> "none", at |-> "idle", query |-> << >>, documents |-> << >>,
     top_k |-> None, hash_value |-> 0, i |-> 0, scores |-> << >>,
     embedding |-> NoEmbedding, model |-> NoneVal, tokenizer |-> NoneVal,
     overlapped |-> FALSE]

Running(f) == f.at \notin { "idle", "done" }

\* Thread t moves to frame nf; the calls running in the other threads are
\* overlapped by this step.
Step(t, nf) ==
    [u \in Threads |->
        IF u = t THEN nf
        ELSE IF Running(frames[u])
             THEN [frames[u] EXCEPT !.overlapped = TRUE]
             ELSE frames[u]]

\* `scores` kept in one module-level list that every call writes.
WriteScoresShared(fs, t, v) == [u \in Threads |-> [fs[u] EXCEPT !.scores = v]]

\* An assignment to `scores`, a local variable of t's call (line 206).
WriteScores(fs, t, v) == [fs EXCEPT ![t].scores = v]

restVars == << pc, argVars, envVars, retVars >>

InitConc ==
    /\ SENTENCE_TRANSFORMERS_AVAILABLE \in BOOLEAN
    /\ TRANSFORMERS_AVAILABLE \in BOOLEAN
    /\ _embedding_model = NoneVal
    /\ _reranking_model = NoneVal
    /\ _tokenizer = NoneVal
    /\ embedding_loads = 0
    /\ reranking_loads = 0
    /\ pc = "idle"
    /\ NoCall
    /\ frames = [t \in Threads |-> IdleFrame]

\* Thread t calls _create_fallback_reranking(q, docs, k).
CallFallbackReranking(t, q, docs, k) ==
    /\ frames[t].at = "idle"
    /\ frames' = Step(t, [frames[t] EXCEPT !.fn = "_create_fallback_reranking",
                             !.at = "L205", !.query = q, !.documents = docs,
                             !.top_k = k])
    /\ UNCHANGED << flagVars, cacheVars, loadVars, restVars >>

\* Lines 205-206: query_words, scores = [].
FrStart(t) ==
    /\ frames[t].fn = "_create_fallback_reranking"
    /\ frames[t].at = "L205"
    /\ frames' = WriteScores(Step(t, [frames[t] EXCEPT !.at = "L208", !.i = 0]),
                             t, << >>)
    /\ UNCHANGED << flagVars, cacheVars, loadVars, restVars >>

\* Lines 208-224: one iteration of the loop.
FrLoop(t) ==
    /\ frames[t].fn = "_create_fallback_reranking"
    /\ frames[t].at = "L208"
    /\ frames[t].i < Len(frames[t].documents)
    /\ LET f == frames[t]
           e == << f.i, FallbackScore(f.query, f.documents[f.i + 1]) >>
       IN  frames' = WriteScores(Step(t, [f EXCEPT !.i = f.i + 1]),
                                 t, Append(f.scores, e))
    /\ UNCHANGED << flagVars, cacheVars, loadVars, restVars >>

\* Line 208: the loop ends.
FrLoopEnd(t) ==
    /\ frames[t].fn = "_create_fallback_reranking"
    /\ frames[t].at = "L208"
    /\ frames[t].i = Len(frames[t].documents)
    /\ frames' = Step(t, [frames[t] EXCEPT !.at = "L227"])
    /\ UNCHANGED << flagVars, cacheVars, loadVars, restVars >>

\* Line 227: scores.sort(...).
FrSort(t) ==
    /\ frames[t].fn = "_create_fallback_reranking"
    /\ frames[t].at = "L227"
    /\ frames' = WriteScores(Step(t, [frames[t] EXCEPT !.at = "L230"]),
                             t, SortDesc(frames[t].scores))
    /\ UNCHANGED << flagVars, cacheVars, loadVars, restVars >>

\* Lines 230-231: the top_k limit.
FrTopK(t) ==
    /\ frames[t].fn = "_create_fallback_reranking"
    /\ frames[t].at = "L230"
    /\ frames' = WriteScores(Step(t, [frames[t] EXCEPT !.at = "L234"]),
                             t, ApplyTopK(frames[t].scores, frames[t].top_k))
    /\ UNCHANGED << flagVars, cacheVars, loadVars, restVars >>

\* Line 234: return scores.
FrReturn(t) ==
    /\ frames[t].fn = "_create_fallback_reranking"
    /\ frames[t].at = "L234"
    /\ frames' = Step(t, [frames[t] EXCEPT !.at = "done"])
    /\ UNCHANGED << flagVars, cacheVars, loadVars, restVars >>

\* Thread t calls _create_fallback_embedding on a text of hash h.
CallFallbackEmbedding(t, h) ==
    /\ frames[t].at = "idle"
    /\ frames' = Step(t, [frames[t] EXCEPT !.fn = "_create_fallback_embedding",
                             !.at = "L185", !.hash_value = h])
    /\ UNCHANGED << flagVars, cacheVars, loadVars, restVars >>

\* Lines 185-193: the hash and the loop, which touch only locals.
FeRaw(t) ==
    /\ frames[t].fn = "_create_fallback_embedding"
    /\ frames[t].at = "L185"
    /\ frames' = Step(t, [frames[t] EXCEPT !.at = "L196",
                             !.embedding = [source |-> "fallback",
                                            raw |-> RawEmbedding(frames[t].hash_value),
                                            sumsq |-> 0, normalized |-> FALSE]])
    /\ UNCHANGED << flagVars, cacheVars, loadVars, restVars >>

\* Lines 196-198: the norm and the division.
FeNormalize(t) ==
    /\ frames[t].fn = "_create_fallback_embedding"
    /\ frames[t].at = "L196"
    /\ LET sumsq == SumSquares(frames[t].embedding.raw)
       IN  frames' = Step(t, [frames[t] EXCEPT !.at = "L201",
                                 !.embedding.sumsq = sumsq,
                                 !.embedding.normalized = sumsq > 0])
    /\ UNCHANGED << flagVars, cacheVars, loadVars, restVars >>

\* Line 201: return embedding.
FeReturn(t) ==
    /\ frames[t].fn = "_create_fallback_embedding"
    /\ frames[t].at = "L201"
    /\ frames' = Step(t, [frames[t] EXCEPT !.at = "done"])
    /\ UNCHANGED << flagVars, cacheVars, loadVars, restVars >>

\* Thread t calls _get_embedding_model().
CallGetEmbeddingModel(t) ==
    /\ frames[t].at = "idle"
    /\ frames' = Step(t, [frames[t] EXCEPT !.fn = "_get_embedding_model",
                             !.at = "L46"])
    /\ UNCHANGED << flagVars, cacheVars, loadVars, restVars >>

\* Lines 46-47: the cache check and the library check.
GeCheck(t) ==
    /\ frames[t].fn = "_get_embedding_model"
    /\ frames[t].at = "L46"
    /\ frames' = Step(t, [frames[t] EXCEPT !.at =
                             IF EmbeddingCacheEmpty
                             THEN IF SENTENCE_TRANSFORMERS_AVAILABLE
                                  THEN "L50" ELSE "L57"
                             ELSE "L59"])
    /\ UNCHANGED << flagVars, cacheVars, loadVars, restVars >>

\* Line 50: the load returns and the model is stored, or it raises.
GeLoad(t, load) ==
    /\ frames[t].fn = "_get_embedding_model"
    /\ frames[t].at = "L50"
    /\ embedding_loads' = embedding_loads + 1
    /\ IF load = "ok"
       THEN /\ _embedding_model' = Loaded("SentenceTransformer", embedding_loads + 1)
            /\ frames' = Step(t, [frames[t] EXCEPT !.at = "L59"])
       ELSE /\ UNCHANGED _embedding_model
            /\ frames' = Step(t, [frames[t] EXCEPT !.at = "L54"])
    /\ UNCHANGED << flagVars, _reranking_model, _tokenizer, reranking_loads,
                    restVars >>

\* Line 54: _embedding_model = None.
GeExcept(t) ==
    /\ frames[t].fn = "_get_embedding_model"
    /\ frames[t].at = "L54"
    /\ _embedding_model' = NoneVal
    /\ frames' = Step(t, [frames[t] EXCEPT !.at = "L59"])
    /\ UNCHANGED << flagVars, _reranking_model, _tokenizer, loadVars, restVars >>

\* Line 57: _embedding_model = "fallback".
GeSentinel(t) ==
    /\ frames[t].fn = "_get_embedding_model"
    /\ frames[t].at = "L57"
    /\ _embedding_model' = FallbackSentinel
    /\ frames' = Step(t, [frames[t] EXCEPT !.at = "L59"])
    /\ UNCHANGED << flagVars, _reranking_model, _tokenizer, loadVars, restVars >>

\* Line 59: return _embedding_model.
GeReturn(t) ==
    /\ frames[t].fn = "_get_embedding_model"
    /\ frames[t].at = "L59"
    /\ frames' = Step(t, [frames[t] EXCEPT !.at = "done",
                             !.model = _embedding_model])
    /\ UNCHANGED << flagVars, cacheVars, loadVars, restVars >>

\* Thread t calls _get_reranking_model().
CallGetRerankingModel(t) ==
    /\ frames[t].at = "idle"
    /\ frames' = Step(t, [frames[t] EXCEPT !.fn = "_get_reranking_model",
                             !.at = "L65"])
    /\ UNCHANGED << flagVars, cacheVars, loadVars, restVars >>

\* Lines 65-66: the cache check and the library check.
GrCheck(t) ==
    /\ frames[t].fn = "_get_reranking_model"
    /\ frames[t].at = "L65"
    /\ frames' = Step(t, [frames[t] EXCEPT !.at =
                             IF RerankingCacheEmpty
                             THEN IF TRANSFORMERS_AVAILABLE
                                  THEN "L70" ELSE "L79"
                             ELSE "L82"])
    /\ UNCHANGED << flagVars, cacheVars, loadVars, restVars >>

\* Line 70: the tokenizer is loaded and stored, or the load raises.  The
\* number of this load is kept in i.
GrTokenizer(t, ok) ==
    /\ frames[t].fn = "_get_reranking_model"
    /\ frames[t].at = "L70"
    /\ reranking_loads' = reranking_loads + 1
    /\ IF ok
       THEN /\ _tokenizer' = Loaded("AutoTokenizer", reranking_loads + 1)
            /\ frames' = Step(t, [frames[t] EXCEPT !.at = "L71",
                                     !.i = reranking_loads + 1])
       ELSE /\ UNCHANGED _tokenizer
            /\ frames' = Step(t, [frames[t] EXCEPT !.at = "L75"])
    /\ UNCHANGED << flagVars, _embedding_model, _reranking_model,
                    embedding_loads, restVars >>

\* Line 71: the model is loaded and stored, or the load raises.
GrModel(t, ok) ==
    /\ frames[t].fn = "_get_reranking_model"
    /\ frames[t].at = "L71"
    /\ IF ok
       THEN /\ _reranking_model' = Loaded("AutoModel", frames[t].i)
            /\ frames' = Step(t, [frames[t] EXCEPT !.at = "L82"])
       ELSE /\ UNCHANGED _reranking_model
            /\ frames' = Step(t, [frames[t] EXCEPT !.at = "L75"])
    /\ UNCHANGED << flagVars, _embedding_model, _tokenizer, loadVars, restVars >>

\* Line 75: _reranking_model = None.
GrExceptModel(t) ==
    /\ frames[t].fn = "_get_reranking_model"
    /\ frames[t].at = "L75"
    /\ _reranking_model' = NoneVal
    /\ frames' = Step(t, [frames[t] EXCEPT !.at = "L76"])
    /\ UNCHANGED << flagVars, _embedding_model, _tokenizer, loadVars, restVars >>

\* Line 76: _tokenizer = None.
GrExceptTokenizer(t) ==
    /\ frames[t].fn = "_get_reranking_model"
    /\ frames[t].at = "L76"
    /\ _tokenizer' = NoneVal
    /\ frames' = Step(t, [frames[t] EXCEPT !.at = "L82"])
    /\ UNCHANGED << flagVars, _embedding_model, _reranking_model, loadVars,
                    restVars >>

\* Line 79: _reranking_model = "fallback".
GrSentinelModel(t) ==
    /\ frames[t].fn = "_get_reranking_model"
    /\ frames[t].at = "L79"
    /\ _reranking_model' = FallbackSentinel
    /\ frames' = Step(t, [frames[t] EXCEPT !.at = "L80"])
    /\ UNCHANGED << flagVars, _embedding_model, _tokenizer, loadVars, restVars >>

\* Line 80: _tokenizer = "fallback".
GrSentinelTokenizer(t) ==
    /\ frames[t].fn = "_get_reranking_model"
    /\ frames[t].at = "L80"
    /\ _tokenizer' = FallbackSentinel
    /\ frames' = Step(t, [frames[t] EXCEPT !.at = "L82"])
    /\ UNCHANGED << flagVars, _embedding_model, _reranking_model, loadVars,
                    restVars >>

\* Line 82: return _reranking_model, _tokenizer.
GrReturn(t) ==
    /\ frames[t].fn = "_get_reranking_model"
    /\ frames[t].at = "L82"
    /\ frames' = Step(t, [frames[t] EXCEPT !.at = "done",
                             !.model = _reranking_model,
                             !.tokenizer = _tokenizer])
    /\ UNCHANGED << flagVars, cacheVars, loadVars, restVars >>

NextConc ==
    \E t \in Threads :
        \/ \E q \in ConcQueries, docs \in ConcDocLists, k \in ConcTopKs :
              CallFallbackReranking(t, q, docs, k)
        \/ FrStart(t) \/ FrLoop(t) \/ FrLoopEnd(t) \/ FrSort(t) \/ FrTopK(t)
        \/ FrReturn(t)
        \/ \E h \in ConcHashes : CallFallbackEmbedding(t, h)
        \/ FeRaw(t) \/ FeNormalize(t) \/ FeReturn(t)
        \/ CallGetEmbeddingModel(t)
        \/ GeCheck(t)
        \/ \E load \in EmbeddingLoadOutcomes : GeLoad(t, load)
        \/ GeExcept(t) \/ GeSentinel(t) \/ GeReturn(t)
        \/ CallGetRerankingModel(t)
        \/ GrCheck(t)
        \/ \E ok \in BOOLEAN : GrTokenizer(t, ok)
        \/ \E ok \in BOOLEAN : GrModel(t, ok)
        \/ GrExceptModel(t) \/ GrExceptTokenizer(t)
        \/ GrSentinelModel(t) \/ GrSentinelTokenizer(t)
        \/ GrReturn(t)

SpecConc == InitConc /\ [][NextConc]_vars

\* ------------------------------------------------ claims on the reranking

\* The ranking returned when top_k is omitted.
FullRanking == FallbackReranking(query, documents, None)

FallbackReturned == pc = "returned" /\ fn = "_create_fallback_reranking"

\* C1: the sequence _create_fallback_reranking returns is ordered by score
\* descending, and two documents of equal score appear in ascending order of
\* their original index.
C1_SortedDescStable ==
    FallbackReturned =>
        \A p, q \in 1..Len(scores) :
            p < q =>
                /\ ScoreLeq(scores[q][2], scores[p][2])
                /\ ScoreEq(scores[p][2], scores[q][2]) => scores[p][1] < scores[q][1]

\* C1 witness: three documents returned, the first of the input not ranked
\* first, and the last two entries tied below the first.
C1_Witness ==
    /\ FallbackReturned
    /\ Len(scores) = 3
    /\ scores[1][1] # 0
    /\ ScoreLess(scores[2][2], scores[1][2])
    /\ ScoreEq(scores[2][2], scores[3][2])

\* C2: with top_k omitted the result has exactly len(documents) pairs whose
\* indices are 0..len(documents)-1, each once; for the empty list the result
\* is empty; no error is raised.
C2_PermutationOfIndices ==
    (FallbackReturned /\ top_k = None) =>
        /\ ~raised
        /\ Len(scores) = Len(documents)
        /\ { scores[p][1] : p \in 1..Len(scores) } = 0..(Len(documents) - 1)
        /\ documents = << >> => scores = << >>

\* C2 witness: a full ranking of several documents that is not in input order.
C2_Witness ==
    /\ FallbackReturned
    /\ top_k = None
    /\ Len(documents) >= 2
    /\ Len(scores) = Len(documents)
    /\ scores[1][1] # 0

\* C3: for top_k >= 0 the result is the first min(top_k, len(documents))
\* entries of the full ranking: empty for top_k = 0, the full ranking for
\* top_k > len(documents).
C3_TopKPrefix ==
    (FallbackReturned /\ top_k # None) =>
        (top_k[1] >= 0 =>
            /\ Len(scores) = Min(top_k[1], Len(documents))
            /\ \A p \in 1..Len(scores) : scores[p] = FullRanking[p]
            /\ top_k[1] = 0 => scores = << >>
            /\ top_k[1] > Len(documents) => scores = FullRanking)

\* C3 witness: a ranking of three documents cut to a shorter, non-empty one.
C3_Witness ==
    /\ FallbackReturned
    /\ top_k # None
    /\ Len(documents) = 3
    /\ Len(scores) >= 1
    /\ Len(scores) < Len(documents)

\* Every character of t is whitespace (t may be empty).
AllBlank(t) == \A i \in 1..Len(t) : IsSpace(t[i])

\* C4 as claimed: when query and document are both empty or whitespace-only
\* the score assigned to the document is 0.0.
C4_EmptyUnionScoreZero ==
    (FallbackReturned /\ Len(documents) = 1) =>
        ((AllBlank(query) /\ AllBlank(documents[1])) => scores[1][2][1] = 0)

\* C4 amended: when query and document are both empty or whitespace-only the
\* Jaccard part is 0.0, and the score assigned is 0.1 if the lower-cased query
\* is a contiguous substring of the lower-cased document (as the empty query
\* always is) and 0.0 otherwise.
C4_EmptyUnionScoreBonusOnly ==
    (FallbackReturned /\ Len(documents) = 1) =>
        ((AllBlank(query) /\ AllBlank(documents[1])) =>
            IF Contains(Lower(query), Lower(documents[1]))
            THEN ScoreEq(scores[1][2], Score(1, 10))
            ELSE ScoreEq(scores[1][2], Score(0, 1)))

\* C4 witness: a whitespace-only, non-empty query scored against a
\* whitespace-only document that contains it.
C4_Witness ==
    /\ FallbackReturned
    /\ Len(documents) = 1
    /\ query # << >>
    /\ AllBlank(query) /\ AllBlank(documents[1])
    /\ scores[1][2][1] # 0

\* C5: the fallback score is the Jaccard similarity of the two lower-cased
\* whitespace-split word sets, plus 0.1 exactly when the lower-cased query is
\* a contiguous substring of the lower-cased document; it lies in [0, 1.1].
C5_ScoreIsJaccardPlusBonus ==
    (FallbackReturned /\ Len(documents) = 1) =>
        LET Q == WordSet(query)
            D == WordSet(documents[1])
            i == Cardinality(Q \cap D)
            u == IF Q \cup D = {} THEN 1 ELSE Cardinality(Q \cup D)
            b == IF Contains(Lower(query), Lower(documents[1])) THEN 1 ELSE 0
            s == scores[1][2]
        IN  /\ s[2] > 0
            /\ s[1] * (10 * u) = (10 * i + b * u) * s[2]
            /\ 0 <= s[1]
            /\ 10 * s[1] <= 11 * s[2]

\* C5 witness: a document sharing some but not all words with the query and
\* containing the query in another letter case.
C5_Witness ==
    /\ FallbackReturned
    /\ Len(documents) = 1
    /\ Contains(Lower(query), Lower(documents[1]))
    /\ ~Contains(query, documents[1])
    /\ ScoreLess(Score(1, 10), scores[1][2])
    /\ ScoreLess(scores[1][2], Score(1, 1))

\* ------------------------------------------------- claims on the embedding

EmbeddingReturned == pc = "returned" /\ fn = "_create_fallback_embedding"

\* C6: for every text, the empty string and texts of negative hash included,
\* exactly 384 raw components are built; the component at index i is
\* ((hash + 37*i) mod 2000 - 1000) / 1000 with a non-negative remainder, so
\* in thousandths it lies in -1000..999 and is congruent to
\* hash + 37*i - 1000 modulo 2000.
C6_RawComponentsInRange ==
    EmbeddingReturned =>
        /\ Len(embedding.raw) = 384
        /\ \A i \in 0..383 :
              /\ embedding.raw[i + 1] \in (0 - 1000)..999
              /\ (hash_value + 37 * i - (embedding.raw[i + 1] + 1000)) % 2000 = 0

\* C6 witness: the empty string with a negative hash that is no multiple of
\* 2000, so that the first seed has a non-zero remainder.
C6_Witness ==
    /\ EmbeddingReturned
    /\ text = << >>
    /\ hash_value < 0
    /\ embedding.raw[1] # 0 - 1000
    /\ Len(embedding.raw) = 384

\* --------------------------------------------------- claims on the gateway

GenerateReturned == pc = "returned" /\ fn = "generate_embedding"

RerankReturned == pc = "returned" /\ fn = "rerank_documents"

\* The scoring of some document raised in this call.
SomeScoringRaised == \E i \in 1..Len(outcomes) : outcomes[i] = Raises

\* generate_embedding met a failure of the real-model path: the library is
\* missing, the load raised, or model.encode raised.
EmbeddingPathFailed ==
    \/ ~SENTENCE_TRANSFORMERS_AVAILABLE
    \/ load_outcome = "raises"
    \/ ~encode_ok

\* rerank_documents met a failure to get the model: the library is missing
\* or the load raised.
RerankingModelUnavailable ==
    \/ ~TRANSFORMERS_AVAILABLE
    \/ load_outcome \in { "tokenizer_raises", "model_raises" }

\* C7 as claimed: whenever the real model is unavailable, fails to load or
\* raises during inference, generate_embedding and rerank_documents do not
\* raise and return the result of the fallback function on the same
\* arguments.
C7_AnyFailureReturnsFallback ==
    /\ (GenerateReturned /\ EmbeddingPathFailed) =>
          (~raised /\ embedding = FallbackEmbedding(hash_value))
    /\ (RerankReturned /\ (RerankingModelUnavailable \/ SomeScoringRaised)) =>
          (~raised /\ scores = FallbackReranking(query, documents, top_k))

\* C7 amended: neither function raises.  generate_embedding returns the
\* fallback embedding when the library is missing, the load fails or encode
\* raises; rerank_documents returns the fallback ranking when the library is
\* missing or the load fails, but a raise while scoring one document is
\* caught for that document alone: every entry returned carries the model's
\* score of its document, or 0.0 if scoring it raised.
C7_FailureHandledWithoutRaising ==
    /\ pc = "returned" => ~raised
    /\ (GenerateReturned /\ EmbeddingPathFailed) =>
          embedding = FallbackEmbedding(hash_value)
    /\ (RerankReturned /\ RerankingModelUnavailable) =>
          scores = FallbackReranking(query, documents, top_k)
    /\ (RerankReturned /\ SomeScoringRaised) =>
          \A p \in 1..Len(scores) :
              LET out == outcomes[scores[p][1] + 1]
              IN  scores[p][2] = IF out = Raises THEN Score(0, 1) ELSE out

\* C7 witness: model.encode raised on a loaded model and the fallback
\* embedding came back.
C7_Witness ==
    /\ GenerateReturned
    /\ SENTENCE_TRANSFORMERS_AVAILABLE
    /\ _embedding_model # NoneVal
    /\ ~encode_ok
    /\ ~raised
    /\ embedding.source = "fallback"

\* C9 as claimed: on the real-model path a document whose scoring raises is
\* given score 0.0, that score is the lowest (no successfully scored
\* document has a lower one) and the document is never placed before a
\* successfully scored document of another score; without top_k every
\* original index appears exactly once.
C9_FailedDocumentRanksLowest ==
    (RerankReturned /\ Len(outcomes) > 0) =>
        /\ \A p \in 1..Len(scores) :
              outcomes[scores[p][1] + 1] = Raises => scores[p][2] = Score(0, 1)
        /\ \A i, j \in 1..Len(outcomes) :
              (outcomes[i] = Raises /\ outcomes[j] # Raises) =>
                  ScoreLeq(Score(0, 1), outcomes[j])
        /\ \A p, q \in 1..Len(scores) :
              (/\ p < q
               /\ outcomes[scores[p][1] + 1] = Raises
               /\ outcomes[scores[q][1] + 1] # Raises)
                  => ScoreEq(scores[p][2], scores[q][2])
        /\ top_k = None =>
              /\ Len(scores) = Len(documents)
              /\ { scores[p][1] : p \in 1..Len(scores) } = 0..(Len(documents) - 1)

\* C10: once a load has succeeded or the "fallback" sentinel is stored, the
\* cached value never changes and no further load is attempted; a failed
\* load leaves the cache None (_reranking_model and _tokenizer together),
\* and a call on an empty cache with the library present attempts the load.
C10_CacheIsSingleton ==
    [][ /\ _embedding_model # NoneVal =>
              /\ _embedding_model' = _embedding_model
              /\ embedding_loads' = embedding_loads
        /\ _reranking_model # NoneVal =>
              /\ _reranking_model' = _reranking_model
              /\ _tokenizer' = _tokenizer
              /\ reranking_loads' = reranking_loads
        /\ (_reranking_model' = NoneVal) <=> (_tokenizer' = NoneVal)
        /\ (embedding_loads' # embedding_loads /\ load_outcome' = "raises") =>
              _embedding_model' = NoneVal
        /\ (reranking_loads' # reranking_loads /\ load_outcome' # "ok") =>
              (_reranking_model' = NoneVal /\ _tokenizer' = NoneVal)
        /\ (/\ pc = "idle"
            /\ fn' \in { "_get_embedding_model", "generate_embedding" }
            /\ _embedding_model = NoneVal
            /\ SENTENCE_TRANSFORMERS_AVAILABLE) =>
              embedding_loads' = embedding_loads + 1
        /\ (/\ pc = "idle"
            /\ fn' \in { "_get_reranking_model", "rerank_documents" }
            /\ _reranking_model = NoneVal
            /\ TRANSFORMERS_AVAILABLE) =>
              reranking_loads' = reranking_loads + 1
      ]_vars

\* C10 witness: a call served from the cache after a failed load was
\* followed by a successful one, for both models.
C10_Witness ==
    /\ pc = "returned"
    /\ load_outcome = "none"
    /\ _embedding_model = Loaded("SentenceTransformer", 2)
    /\ _reranking_model = Loaded("AutoModel", 2)
    /\ _tokenizer = Loaded("AutoTokenizer", 2)

\* --------------------------------------------- claims on concurrent calls

FallbackFunctions == { "_create_fallback_embedding", "_create_fallback_reranking" }

\* This step is one of thread t: its frame changed in more than overlapped.
TookStep(t) == [frames'[t] EXCEPT !.overlapped = frames[t].overlapped] # frames[t]

\* C8: the fallback functions share no mutable state.  No step of a call
\* of a fallback function writes _embedding_model, _reranking_model or
\* _tokenizer, and under every interleaving, also with calls that fill the
\* cache, a call that has returned holds the result the same call gives
\* when run alone.
C8_FallbacksIsolated ==
    [][ \A t \in Threads :
          /\ (frames'[t].fn \in FallbackFunctions /\ TookStep(t)) =>
                UNCHANGED cacheVars
          /\ (frames'[t].at = "done"
                 /\ frames'[t].fn = "_create_fallback_reranking") =>
                frames'[t].scores =
                    FallbackReranking(frames'[t].query, frames'[t].documents,
                                      frames'[t].top_k)
          /\ (frames'[t].at = "done"
                 /\ frames'[t].fn = "_create_fallback_embedding") =>
                frames'[t].embedding = FallbackEmbedding(frames'[t].hash_value)
      ]_vars

\* C8 witness: a fallback reranking of two documents has returned after
\* being overlapped by steps of another thread, which has stored a loaded
\* tokenizer in the cache and is still loading the model.
C8_Witness ==
    /\ frames # << >>
    /\ frames["t1"].fn = "_create_fallback_reranking"
    /\ frames["t1"].at = "done"
    /\ frames["t1"].overlapped
    /\ Len(frames["t1"].scores) = 2
    /\ frames["t2"].fn = "_get_reranking_model"
    /\ frames["t2"].at = "L71"
    /\ frames["t2"].overlapped
    /\ _tokenizer # NoneVal

\* ------------------------------------------- claims on the normalization

\* C11: _create_fallback_embedding never divides by zero and never returns
\* the all-zero vector: the vector is normalized exactly when the sum of the
\* squares of the raw components is > 0, and for every hash at least one of
\* the 384 raw components is non-zero, so the sum is > 0, the vector is
\* normalized and the norm == 0 branch is never taken.
C11_NormIsNeverZero ==
    EmbeddingReturned =>
        /\ embedding.normalized <=> embedding.sumsq > 0
        /\ \E i \in 1..Len(embedding.raw) : embedding.raw[i] # 0
        /\ embedding.sumsq > 0
        /\ embedding.normalized

\* C11 witness: a hash whose first raw component is exactly 0 (the seed is
\* 1000 modulo 2000), and the vector is normalized all the same.
C11_Witness ==
    /\ EmbeddingReturned
    /\ Len(embedding.raw) = 384
    /\ embedding.raw[1] = 0
    /\ embedding.raw[2] # 0
    /\ embedding.normalized

=============================================================================
